---- MODULE Spec2Model ----
(***************************************************************************)
(* Model of Bear's JSON compilation database                               *)
(* (src/rust/src/compilation/database.rs): the Entry record and its        *)
(* HashSet identity, DatabaseFormat, the GenericEntry wire record with its *)
(* untagged serde encoding, and Database::load / Database::save.           *)
(*                                                                         *)
(* Text is a sequence of one-character strings.  A path is a record        *)
(* [utf8, s]: Path::to_str gives Some(s) exactly when utf8 holds.  A file  *)
(* is [exists, content] where content is a sequence of cells, one cell per *)
(* JSON token written or read: the array brackets and one cell per object. *)
(* A JSON object is a record over the five keys the wire shapes use; a key *)
(* that is not in the object has the value Absent.                         *)
(***************************************************************************)
EXTENDS Integers, Sequences, FiniteSets, TLC

VARIABLES entries, format, file, res, generic_entries, beforeLen,
          pc, cargs, doc, written, offset, lastOpen, dirty

vars == <<entries, format, file, res, generic_entries, beforeLen,
          pc, cargs, doc, written, offset, lastOpen, dirty>>

seqVars == <<entries, format, file, res, generic_entries, beforeLen>>

concVars == <<pc, cargs, doc, written, offset, lastOpen, dirty>>

\* ---------------------------------------------------------------- bounds
MaxEntries == 2

\* ------------------------------------------------------------ text, paths
CC == <<"c", "c">>

DashC == <<"-", "c">>

AC == <<"a", ".", "c">>

AB == <<"a", " ", "b">>

BuildDir == <<"/", "b">>

AO == <<"a", ".", "o">>

Utf8Path(s) == [utf8 |-> TRUE, s |-> s]

NonUtf8Path(s) == [utf8 |-> FALSE, s |-> s]

NoneStr == [some |-> FALSE, v |-> <<>>]

SomeStr(s) == [some |-> TRUE, v |-> s]

NonePath == [some |-> FALSE, v |-> Utf8Path(<<>>)]

SomePath(p) == [some |-> TRUE, v |-> p]

\* ------------------------------------------------------------------ Entry
Entry(d, f, c, o) == [directory |-> d, file |-> f, command |-> c, output |-> o]

\* impl PartialEq for Entry: output is not compared.
EntryEq(a, b) ==
    /\ a.directory = b.directory
    /\ a.file = b.file
    /\ a.command = b.command

\* #[derive(Hash)]: every field, output included, is fed to the hasher.
EntryHash(e) == <<e.directory, e.file, e.command, e.output>>

\* HashSet::insert.  The table finds a stored member only through its hash;
\* two different hasher inputs give the same 64-bit hash only by collision,
\* which is the input `collide`.
HashSetInsert(set, e, collide) ==
    IF \E m \in set : EntryEq(m, e) /\ (EntryHash(m) = EntryHash(e) \/ collide)
    THEN set
    ELSE set \cup {e}

\* The entries the caller builds sets from.
E1 == Entry(Utf8Path(BuildDir), Utf8Path(AC), <<CC, DashC, AC>>, NonePath)

E2 == Entry(Utf8Path(BuildDir), Utf8Path(AC), <<CC, DashC, AC>>, SomePath(Utf8Path(AO)))

E3 == Entry(Utf8Path(BuildDir), Utf8Path(AC), <<CC, AB>>, NonePath)

E4 == Entry(NonUtf8Path(BuildDir), Utf8Path(AC), <<CC>>, NonePath)

E5 == Entry(Utf8Path(BuildDir), NonUtf8Path(AC), <<CC>>, NonePath)

E6 == Entry(Utf8Path(BuildDir), Utf8Path(AC), <<CC>>, SomePath(NonUtf8Path(AO)))

E7 == Entry(Utf8Path(BuildDir), Utf8Path(AC), <<>>, NonePath)

Universe == {E1, E2, E3, E4, E5, E6, E7}

\* HashSet iteration order is unspecified: any arrangement of the members.
Orders(set) ==
    {s \in [1..Cardinality(set) -> set] :
        \A i, j \in 1..Cardinality(set) : s[i] = s[j] => i = j}

\* ------------------------------------------------------------ shellwords
\* the class [A-Za-z0-9_\-.,:/@\n] of shellwords' escape pattern, over the
\* characters the texts of the model use
SafeChars == {"a", "b", "c", "o", "1", "_", "-", ".", ",", ":", "/", "@", "\n"}

\* the concatenation of a sequence of sequences, by halves
RECURSIVE Flatten(_)
Flatten(ss) ==
    IF ss = <<>> THEN <<>>
    ELSE IF Len(ss) = 1 THEN ss[1]
    ELSE LET h == Len(ss) \div 2
         IN  Flatten(SubSeq(ss, 1, h)) \o Flatten(SubSeq(ss, h + 1, Len(ss)))

\* shellwords::escape: the empty word becomes '', a line feed is quoted,
\* every other character outside the safe class gets a backslash.
EscapeChar(ch) ==
    IF ch = "\n" THEN <<"'", "\n", "'">>
    ELSE IF ch \in SafeChars THEN <<ch>>
    ELSE <<"\\", ch>>

Escape(word) ==
    IF Len(word) = 0 THEN <<"'", "'">>
    ELSE Flatten([i \in 1..Len(word) |-> EscapeChar(word[i])])

\* shellwords::join: the escaped words separated by one space.
Join(words) ==
    Flatten([i \in 1..Len(words) |->
                IF i = 1 THEN Escape(words[i]) ELSE <<" ">> \o Escape(words[i])])

\* ----------------------------------------------------------- Result values
NoErr == [k |-> "none", path |-> Utf8Path(<<>>), msgs |-> <<>>]

PathErr(p) == [k |-> "path", path |-> p, msgs |-> <<>>]

IoErr == [k |-> "io", path |-> Utf8Path(<<>>), msgs |-> <<>>]

DeserErr == [k |-> "deser", path |-> Utf8Path(<<>>), msgs |-> <<>>]

JoinedErr(msgs) == [k |-> "joined", path |-> Utf8Path(<<>>), msgs |-> msgs]

\* ----------------------------------------------------------- GenericEntry
StringEntry(d, f, c, o) ==
    [tag |-> "StringEntry", directory |-> d, file |-> f,
     command |-> c, arguments |-> <<>>, output |-> o]

ArrayEntry(d, f, a, o) ==
    [tag |-> "ArrayEntry", directory |-> d, file |-> f,
     command |-> <<>>, arguments |-> a, output |-> o]

\* inner::from::path_to_string
PathToString(p) ==
    IF p.utf8 THEN [ok |-> TRUE, v |-> p.s, err |-> NoErr]
    ELSE [ok |-> FALSE, v |-> <<>>, err |-> PathErr(p)]

DatabaseFormatNew == [command_as_array |-> TRUE]

\* inner::from with the format flag ignored: always the array shape
FromAlwaysArray(entry, fmt) ==
    LET directory == PathToString(entry.directory)
        fileStr == PathToString(entry.file)
        out == IF entry.output.some THEN PathToString(entry.output.v)
               ELSE [ok |-> TRUE, v |-> <<>>, err |-> NoErr]
        output == IF entry.output.some THEN SomeStr(out.v) ELSE NoneStr
        none == StringEntry(<<>>, <<>>, <<>>, NoneStr)
    IN  IF ~directory.ok THEN [ok |-> FALSE, v |-> none, err |-> directory.err]
        ELSE IF ~fileStr.ok THEN [ok |-> FALSE, v |-> none, err |-> fileStr.err]
        ELSE IF ~out.ok THEN [ok |-> FALSE, v |-> none, err |-> out.err]
        ELSE [ok |-> TRUE, err |-> NoErr,
              v |-> ArrayEntry(directory.v, fileStr.v, entry.command, output)]

\* inner::from
From(entry, fmt) ==
    LET directory == PathToString(entry.directory)
        fileStr == PathToString(entry.file)
        out == IF entry.output.some THEN PathToString(entry.output.v)
               ELSE [ok |-> TRUE, v |-> <<>>, err |-> NoErr]
        output == IF entry.output.some THEN SomeStr(out.v) ELSE NoneStr
        none == StringEntry(<<>>, <<>>, <<>>, NoneStr)
    IN  IF ~directory.ok THEN [ok |-> FALSE, v |-> none, err |-> directory.err]
        ELSE IF ~fileStr.ok THEN [ok |-> FALSE, v |-> none, err |-> fileStr.err]
        ELSE IF ~out.ok THEN [ok |-> FALSE, v |-> none, err |-> out.err]
        ELSE IF fmt.command_as_array
             THEN [ok |-> TRUE, err |-> NoErr,
                   v |-> ArrayEntry(directory.v, fileStr.v, entry.command, output)]
             ELSE [ok |-> TRUE, err |-> NoErr,
                   v |-> StringEntry(directory.v, fileStr.v, Join(entry.command), output)]

\* inner::into is unimplemented!(): every call panics.
Into(generic) == [kind |-> "panic", v |-> E7, err |-> NoErr]

\* ------------------------------------------------------------- JSON values
Absent == [t |-> "absent", s |-> <<>>, l |-> <<>>]

JNull == [t |-> "null", s |-> <<>>, l |-> <<>>]

JNum == [t |-> "num", s |-> <<>>, l |-> <<>>]

JStr(s) == [t |-> "str", s |-> s, l |-> <<>>]

JList(l) == [t |-> "list", s |-> <<>>, l |-> l]

JObj(d, f, c, a, o) ==
    [directory |-> d, file |-> f, command |-> c, arguments |-> a, output |-> o]

\* Serialize without skip_serializing_if: None is written as null
SerializeNullOutput(g) ==
    LET out == IF g.output.some THEN JStr(g.output.v) ELSE JNull
    IN  IF g.tag = "StringEntry"
        THEN JObj(JStr(g.directory), JStr(g.file), JStr(g.command), Absent, out)
        ELSE JObj(JStr(g.directory), JStr(g.file), Absent, JList(g.arguments), out)

\* #[derive(Serialize)] #[serde(untagged)] with skip_serializing_if on output
Serialize(g) ==
    LET out == IF g.output.some THEN JStr(g.output.v) ELSE Absent
    IN  IF g.tag = "StringEntry"
        THEN JObj(JStr(g.directory), JStr(g.file), JStr(g.command), Absent, out)
        ELSE JObj(JStr(g.directory), JStr(g.file), Absent, JList(g.arguments), out)

OutputDecodes(o) == o.output.t \in {"absent", "null", "str"}

DecodeOutput(o) == IF o.output.t = "str" THEN SomeStr(o.output.s) ELSE NoneStr

MatchesStringEntry(o) ==
    /\ o.directory.t = "str"
    /\ o.file.t = "str"
    /\ o.command.t = "str"
    /\ OutputDecodes(o)

MatchesArrayEntry(o) ==
    /\ o.directory.t = "str"
    /\ o.file.t = "str"
    /\ o.arguments.t = "list"
    /\ OutputDecodes(o)

\* Deserialize with the variants declared in the other order
DeserializeArrayFirst(o) ==
    IF MatchesArrayEntry(o)
    THEN [ok |-> TRUE,
          v |-> ArrayEntry(o.directory.s, o.file.s, o.arguments.l, DecodeOutput(o))]
    ELSE IF MatchesStringEntry(o)
    THEN [ok |-> TRUE,
          v |-> StringEntry(o.directory.s, o.file.s, o.command.s, DecodeOutput(o))]
    ELSE [ok |-> FALSE, v |-> StringEntry(<<>>, <<>>, <<>>, NoneStr)]

\* #[derive(Deserialize)] #[serde(untagged)]: the variants are tried in
\* declaration order, StringEntry first; keys a variant does not name are
\* ignored.
Deserialize(o) ==
    IF MatchesStringEntry(o)
    THEN [ok |-> TRUE,
          v |-> StringEntry(o.directory.s, o.file.s, o.command.s, DecodeOutput(o))]
    ELSE IF MatchesArrayEntry(o)
    THEN [ok |-> TRUE,
          v |-> ArrayEntry(o.directory.s, o.file.s, o.arguments.l, DecodeOutput(o))]
    ELSE [ok |-> FALSE, v |-> StringEntry(<<>>, <<>>, <<>>, NoneStr)]

\* ------------------------------------------------------------------- files
NoObj == JObj(Absent, Absent, Absent, Absent, Absent)

\* a value the wire shapes have no use for: a list with an item that is not
\* a string, or a key given twice
JOther == [t |-> "other", s |-> <<>>, l |-> <<>>]

Quote == "\""

NulByte == "NUL"

AbsentFile == [exists |-> FALSE, content |-> <<>>]

FileOf(content) == [exists |-> TRUE, content |-> content]

FileLen(f) == IF f.exists THEN Len(f.content) ELSE -1

KeyOrder == <<"directory", "file", "command", "arguments", "output">>

KeyText(k) ==
    IF k = "directory" THEN <<"d", "i", "r", "e", "c", "t", "o", "r", "y">>
    ELSE IF k = "file" THEN <<"f", "i", "l", "e">>
    ELSE IF k = "command" THEN <<"c", "o", "m", "m", "a", "n", "d">>
    ELSE IF k = "arguments" THEN <<"a", "r", "g", "u", "m", "e", "n", "t", "s">>
    ELSE <<"o", "u", "t", "p", "u", "t">>

\* ---- serde_json's serializer with PrettyFormatter: the sequence of
\* write_all calls, each a run of bytes
JsonNeedsEscape(ch) == ch \in {Quote, "\\", "\n"}

JsonEscape(ch) == IF ch = "\n" THEN <<"\\", "n">> ELSE <<"\\", ch>>

\* format_escaped_str_contents: one write per run of plain characters and
\* one per escape
RECURSIVE StrFragments(_, _, _)
StrFragments(s, i, run) ==
    IF i > Len(s) THEN (IF run = <<>> THEN <<>> ELSE <<run>>)
    ELSE IF JsonNeedsEscape(s[i])
    THEN (IF run = <<>> THEN <<>> ELSE <<run>>)
            \o <<JsonEscape(s[i])>> \o StrFragments(s, i + 1, <<>>)
    ELSE StrFragments(s, i + 1, Append(run, s[i]))

WritesOfString(s) == <<<<Quote>>>> \o StrFragments(s, 1, <<>>) \o <<<<Quote>>>>

\* PrettyFormatter::indent: one write of two spaces per level
Indent(n) == [i \in 1..n |-> <<" ", " ">>]

Separator(first) == IF first THEN <<"\n">> ELSE <<",", "\n">>

WritesOfList(l, n) ==
    IF l = <<>> THEN <<<<"[">>, <<"]">>>>
    ELSE <<<<"[">>>>
         \o Flatten([i \in 1..Len(l) |->
                <<Separator(i = 1)>> \o Indent(n + 1) \o WritesOfString(l[i])])
         \o <<<<"\n">>>> \o Indent(n) \o <<<<"]">>>>

WritesOfValue(jv, n) ==
    IF jv.t = "str" THEN WritesOfString(jv.s)
    ELSE IF jv.t = "list" THEN WritesOfList(jv.l, n)
    ELSE IF jv.t = "null" THEN <<<<"n", "u", "l", "l">>>>
    ELSE <<<<"1">>>>

PresentKeys(o) == SelectSeq(KeyOrder, LAMBDA k : o[k] # Absent)

WritesOfObject(o, n) ==
    LET keys == PresentKeys(o)
    IN  IF keys = <<>> THEN <<<<"{">>, <<"}">>>>
        ELSE <<<<"{">>>>
             \o Flatten([i \in 1..Len(keys) |->
                    <<Separator(i = 1)>> \o Indent(n + 1)
                       \o WritesOfString(KeyText(keys[i])) \o <<<<":", " ">>>>
                       \o WritesOfValue(o[keys[i]], n + 1)])
             \o <<<<"\n">>>> \o Indent(n) \o <<<<"}">>>>

WritesOfArray(objs) ==
    IF objs = <<>> THEN <<<<"[">>, <<"]">>>>
    ELSE <<<<"[">>>>
         \o Flatten([i \in 1..Len(objs) |->
                <<Separator(i = 1)>> \o Indent(1) \o WritesOfObject(objs[i], 1)])
         \o <<<<"\n">>, <<"]">>>>

\* serde_json::ser::to_writer_pretty of a Vec<GenericEntry>: its writes
ToWriterPretty(generics) ==
    WritesOfArray([i \in 1..Len(generics) |-> Serialize(generics[i])])

\* the bytes of a document written whole
DocBytes(writes) == Flatten(writes)

\* ---- serde_json::from_reader: the bytes read as a JSON array of objects
Whitespace == {" ", "\n"}

Punct == {"[", "]", "{", "}", ",", ":"}

Tok(k, s) == [k |-> k, s |-> s]

\* index of the quote closing the string whose contents start at i; 0 when
\* the string is not closed or holds a raw control character
RECURSIVE StringEnd(_, _)
StringEnd(c, i) ==
    IF i > Len(c) THEN 0
    ELSE IF c[i] = Quote THEN i
    ELSE IF c[i] \in {"\n", NulByte} THEN 0
    ELSE IF c[i] = "\\" THEN StringEnd(c, i + 2)
    ELSE StringEnd(c, i + 1)

RECURSIVE Unescape(_, _, _)
Unescape(c, i, last) ==
    IF i > last THEN <<>>
    ELSE IF c[i] = "\\"
    THEN <<IF c[i + 1] = "n" THEN "\n" ELSE c[i + 1]>> \o Unescape(c, i + 2, last)
    ELSE <<c[i]>> \o Unescape(c, i + 1, last)

BadToken(c) == [tok |-> Tok("bad", <<>>), after |-> Len(c) + 1]

\* the string token whose opening quote is at i and closing quote at e
StringAt(c, i, e) ==
    IF e = 0 THEN BadToken(c)
    ELSE [tok |-> Tok("str", Unescape(c, i + 1, e - 1)), after |-> e + 1]

\* the token that starts at i and the index after it; a byte that starts no
\* token gives the token "bad" and ends the scan
TokenAt(c, i) ==
    IF c[i] \in Punct THEN [tok |-> Tok(c[i], <<>>), after |-> i + 1]
    ELSE IF c[i] = Quote THEN StringAt(c, i, StringEnd(c, i + 1))
    ELSE IF c[i] = "n" /\ i + 3 <= Len(c) /\ SubSeq(c, i, i + 3) = <<"n", "u", "l", "l">>
    THEN [tok |-> Tok("null", <<>>), after |-> i + 4]
    ELSE IF c[i] = "1" THEN [tok |-> Tok("num", <<>>), after |-> i + 1]
    ELSE BadToken(c)

LexCons(tok, rest) == [toks |-> <<tok>> \o rest.toks, next |-> rest.next]

\* the tokens that start at i or later and before limit, and the index
\* after the last of them
RECURSIVE LexUpTo(_, _, _)
LexFrom(c, limit, ta) == LexCons(ta.tok, LexUpTo(c, ta.after, limit))

LexUpTo(c, i, limit) ==
    IF i > Len(c) \/ i >= limit THEN [toks |-> <<>>, next |-> i]
    ELSE IF c[i] \in Whitespace THEN LexUpTo(c, i + 1, limit)
    ELSE LexFrom(c, limit, TokenAt(c, i))

\* the tokens of the bytes from i on, scanned a block at a time
RECURSIVE Lex(_, _)
LexNext(c, r) == r.toks \o Lex(c, r.next)

Lex(c, i) == IF i > Len(c) THEN <<>> ELSE LexNext(c, LexUpTo(c, i, i + 16))

ParseFail == [ok |-> FALSE, v |-> Absent, next |-> 0]

\* t[i] is an item of a list: a string, null or a number
RECURSIVE ListItems(_, _, _, _)
ListItems(t, i, acc, strings) ==
    IF i + 1 > Len(t) \/ t[i].k \notin {"str", "null", "num"} THEN ParseFail
    ELSE IF t[i + 1].k = "]"
    THEN [ok |-> TRUE, next |-> i + 2,
          v |-> IF strings /\ t[i].k = "str" THEN JList(Append(acc, t[i].s)) ELSE JOther]
    ELSE IF t[i + 1].k = ","
    THEN ListItems(t, i + 2, IF t[i].k = "str" THEN Append(acc, t[i].s) ELSE acc,
                   strings /\ t[i].k = "str")
    ELSE ParseFail

ParseValue(t, i) ==
    IF i > Len(t) THEN ParseFail
    ELSE IF t[i].k = "str" THEN [ok |-> TRUE, v |-> JStr(t[i].s), next |-> i + 1]
    ELSE IF t[i].k = "null" THEN [ok |-> TRUE, v |-> JNull, next |-> i + 1]
    ELSE IF t[i].k = "num" THEN [ok |-> TRUE, v |-> JNum, next |-> i + 1]
    ELSE IF t[i].k = "[" /\ i + 1 <= Len(t)
    THEN IF t[i + 1].k = "]" THEN [ok |-> TRUE, v |-> JList(<<>>), next |-> i + 2]
         ELSE ListItems(t, i + 1, <<>>, TRUE)
    ELSE ParseFail

KeyNamed(s) ==
    IF s = KeyText("directory") THEN "directory"
    ELSE IF s = KeyText("file") THEN "file"
    ELSE IF s = KeyText("command") THEN "command"
    ELSE IF s = KeyText("arguments") THEN "arguments"
    ELSE IF s = KeyText("output") THEN "output"
    ELSE ""

\* the object with the key set; a key the shapes do not name is skipped
WithKey(o, key, v) ==
    IF key = "" THEN o
    ELSE [o EXCEPT ![key] = IF @ = Absent THEN v ELSE JOther]

\* t[i] is a key of an object
RECURSIVE Members(_, _, _)
MembersAfter(t, key, val, o) ==
    IF ~val.ok \/ val.next > Len(t) THEN ParseFail
    ELSE IF t[val.next].k = "}"
    THEN [ok |-> TRUE, v |-> WithKey(o, key, val.v), next |-> val.next + 1]
    ELSE IF t[val.next].k = "," THEN Members(t, val.next + 1, WithKey(o, key, val.v))
    ELSE ParseFail

Members(t, i, o) ==
    IF i + 2 > Len(t) \/ t[i].k # "str" \/ t[i + 1].k # ":" THEN ParseFail
    ELSE MembersAfter(t, KeyNamed(t[i].s), ParseValue(t, i + 2), o)

ParseObject(t, i) ==
    IF i + 1 > Len(t) \/ t[i].k # "{" THEN ParseFail
    ELSE IF t[i + 1].k = "}" THEN [ok |-> TRUE, v |-> NoObj, next |-> i + 2]
    ELSE Members(t, i + 1, NoObj)

NotAnArray == [ok |-> FALSE, objs |-> <<>>]

\* t[i] starts an object of the array
RECURSIVE Elements(_, _, _)
ElementsAfter(t, ob, acc) ==
    IF ~ob.ok \/ ob.next > Len(t) THEN NotAnArray
    ELSE IF t[ob.next].k = "]"
    THEN (IF ob.next = Len(t) THEN [ok |-> TRUE, objs |-> Append(acc, ob.v)]
          ELSE NotAnArray)
    ELSE IF t[ob.next].k = "," THEN Elements(t, ob.next + 1, Append(acc, ob.v))
    ELSE NotAnArray

Elements(t, i, acc) == ElementsAfter(t, ParseObject(t, i), acc)

ParseTokens(t) ==
    IF Len(t) < 2 \/ t[1].k # "[" THEN NotAnArray
    ELSE IF t[2].k = "]"
    THEN (IF Len(t) = 2 THEN [ok |-> TRUE, objs |-> <<>>] ELSE NotAnArray)
    ELSE Elements(t, 2, <<>>)

\* the objects of a file that holds one JSON array of objects
ParseFile(content) == ParseTokens(Lex(content, 1))

\* every object decoded as a GenericEntry, or the first failure
DecodeAll(parsed) ==
    IF ~parsed.ok \/ \E i \in 1..Len(parsed.objs) : ~Deserialize(parsed.objs[i]).ok
    THEN [ok |-> FALSE, v |-> <<>>, err |-> DeserErr]
    ELSE [ok |-> TRUE, err |-> NoErr,
          v |-> [i \in 1..Len(parsed.objs) |-> Deserialize(parsed.objs[i]).v]]

\* inner::load
InnerLoad(f) ==
    IF ~f.exists THEN [ok |-> FALSE, v |-> <<>>, err |-> IoErr]
    ELSE DecodeAll(ParseFile(f.content))

\* open without truncate(true): an existing file keeps its content
OpenNoTruncate(f) == IF f.exists THEN f ELSE FileOf(<<>>)

\* OpenOptions write(true).truncate(true).create(true).open(path): the file
\* exists afterwards and is empty; the handle's offset is 0.
OpenTruncate(f) == FileOf(<<>>)

\* one write(2) of the bytes through a handle whose offset is off: the bytes
\* land at off.., bytes of the file beyond them stay, and a gap between the
\* end of the file and off reads as NUL.
WriteAt(f, off, bytes) ==
    LET old == f.content
        n == IF off + Len(bytes) > Len(old) THEN off + Len(bytes) ELSE Len(old)
    IN  FileOf([i \in 1..n |->
                  IF i > off /\ i <= off + Len(bytes) THEN bytes[i - off]
                  ELSE IF i <= Len(old) THEN old[i]
                  ELSE NulByte])

\* The writes of one call made one after the other through its handle: each
\* starts where the one before ended, so together they put the bytes of the
\* whole document at the offset of the first.
WriteAll(f, off, writes) == WriteAt(f, off, DocBytes(writes))

\* inner::save opening with append instead of truncate
InnerSaveAppend(f, generics) ==
    WriteAll(OpenNoTruncate(f), FileLen(OpenNoTruncate(f)), ToWriterPretty(generics))

\* inner::save: open with write/truncate/create, then write the document
InnerSave(f, generics) == WriteAll(OpenTruncate(f), 0, ToWriterPretty(generics))

\* ------------------------------------------------------- Database::save
Result(op, kind, err, set) == [op |-> op, kind |-> kind, err |-> err, entries |-> set]

\* entries.iter().map(from).collect::<Result<Vec<_>>>(): the first failing
\* conversion, in iteration order, ends the collection with its error.
CollectFrom(order, fmt) ==
    LET conv == [i \in 1..Len(order) |-> From(order[i], fmt)]
        bad == {i \in 1..Len(order) : ~conv[i].ok}
        first == CHOOSE i \in bad : \A j \in bad : i <= j
    IN  IF bad = {} THEN [ok |-> TRUE, v |-> [i \in 1..Len(order) |-> conv[i].v], err |-> NoErr]
        ELSE [ok |-> FALSE, v |-> <<>>, err |-> conv[first].err]

\* Database::save opening the file before the conversions have succeeded
DatabaseSaveFileOpenFirst(f, order, fmt) ==
    LET conv == CollectFrom(order, fmt)
    IN  IF conv.ok THEN InnerSave(f, conv.v) ELSE OpenTruncate(f)

\* Database::save: the file after the call
DatabaseSaveFile(f, order, fmt) ==
    LET conv == CollectFrom(order, fmt)
    IN  IF conv.ok THEN InnerSave(f, conv.v) ELSE f

\* Database::save: the value returned
DatabaseSaveResult(order, fmt) ==
    LET conv == CollectFrom(order, fmt)
    IN  IF conv.ok THEN Result("save", "ok", NoErr, {})
        ELSE Result("save", "err", conv.err, {})

\* ------------------------------------------------------- Database::load
RECURSIVE CollectEntries(_)
CollectEntries(es) ==
    IF es = <<>> THEN {}
    ELSE HashSetInsert(CollectEntries(SubSeq(es, 1, Len(es) - 1)), es[Len(es)], FALSE)

RECURSIVE ErrorsOf(_)
ErrorsOf(conv) ==
    IF conv = <<>> THEN <<>>
    ELSE IF Head(conv).kind = "err" THEN <<Head(conv).err>> \o ErrorsOf(Tail(conv))
    ELSE ErrorsOf(Tail(conv))

\* lines 88-102: the conversions collected; a panic unwinds out of load
CollectInto(conv) ==
    LET n == Len(conv)
        stops == {i \in 1..n : conv[i].kind # "ok"}
    IN  IF stops = {}
        THEN Result("load", "ok", NoErr, CollectEntries([i \in 1..n |-> conv[i].v]))
        ELSE IF \E i \in 1..n : conv[i].kind = "panic"
        THEN Result("load", "panic", NoErr, {})
        ELSE Result("load", "err", JoinedErr(ErrorsOf(conv)), {})

LoadGeneric(g) ==
    IF ~g.ok THEN Result("load", "err", g.err, {})
    ELSE CollectInto([i \in 1..Len(g.v) |-> Into(g.v[i])])

\* Database::load: the value returned, or the panic that unwinds out of it
DatabaseLoad(f) == LoadGeneric(InnerLoad(f))

\* ------------------------------------------------------------ file states
ObjArr == JObj(JStr(BuildDir), JStr(AC), Absent, JList(<<CC, DashC>>), Absent)

ObjStr == JObj(JStr(BuildDir), JStr(AC), JStr(CC \o <<" ">> \o DashC), Absent, JStr(AO))

ObjBoth == JObj(JStr(BuildDir), JStr(AC), JStr(CC), JList(<<CC, DashC>>), Absent)

ObjNeither == JObj(JStr(BuildDir), JStr(AC), Absent, Absent, Absent)

ObjNumCommand == JObj(JStr(BuildDir), JStr(AC), JNum, JList(<<CC>>), JNull)

ObjUnbalanced == JObj(JStr(BuildDir), JStr(AC), JStr(CC \o <<" ", "'", "a">>), Absent, Absent)

PrettyFile(objs) == FileOf(DocBytes(WritesOfArray(objs)))

\* a document cut short: its last byte is missing
CutFile(objs) ==
    LET bytes == DocBytes(WritesOfArray(objs))
    IN  FileOf(SubSeq(bytes, 1, Len(bytes) - 1))

InitialFiles ==
    { AbsentFile,
      FileOf(<<>>),
      CutFile(<<ObjArr>>),
      PrettyFile(<<>>),
      PrettyFile(<<ObjArr>>),
      PrettyFile(<<ObjStr, ObjArr>>),
      PrettyFile(<<ObjBoth>>),
      PrettyFile(<<ObjNeither>>),
      PrettyFile(<<ObjArr, ObjNeither>>),
      PrettyFile(<<ObjNumCommand>>),
      PrettyFile(<<ObjStr, ObjUnbalanced>>),
      PrettyFile(<<ObjArr, ObjStr, ObjArr, ObjStr>>) }

\* ------------------------------------------------------- sequential calls
Procs == {1, 2}

ConcIdle ==
    /\ pc = [p \in Procs |-> "idle"]
    /\ cargs = [p \in Procs |-> [entries |-> {}, format |-> DatabaseFormatNew]]
    /\ doc = [p \in Procs |-> <<>>]
    /\ written = [p \in Procs |-> 0]
    /\ offset = [p \in Procs |-> 0]
    /\ lastOpen = 0
    /\ dirty = FALSE

Init ==
    /\ entries = {}
    /\ format = DatabaseFormatNew
    /\ file \in InitialFiles
    /\ res = Result("new", "ok", NoErr, {})
    /\ generic_entries = <<>>
    /\ beforeLen = FileLen(file)
    /\ ConcIdle

\* the caller adds an Entry to its Entries set
Insert(e) ==
    /\ Cardinality(entries) < MaxEntries
    /\ \E collide \in BOOLEAN : entries' = HashSetInsert(entries, e, collide)
    /\ res' = Result("insert", "ok", NoErr, {})
    /\ generic_entries' = <<>>
    /\ beforeLen' = FileLen(file)
    /\ UNCHANGED <<format, file>>
    /\ UNCHANGED concVars

\* the caller starts a new Entries set
Clear ==
    /\ entries # {}
    /\ entries' = {}
    /\ res' = Result("clear", "ok", NoErr, {})
    /\ generic_entries' = <<>>
    /\ beforeLen' = FileLen(file)
    /\ UNCHANGED <<format, file>>
    /\ UNCHANGED concVars

\* DatabaseFormat::set_command_as_array
SetCommandAsArray(value) ==
    /\ format' = [format EXCEPT !.command_as_array = value]
    /\ res' = Result("set_command_as_array", "ok", NoErr, {})
    /\ generic_entries' = <<>>
    /\ beforeLen' = FileLen(file)
    /\ UNCHANGED <<entries, file>>
    /\ UNCHANGED concVars

\* Database::save(&entries, &format)
Save ==
    /\ \E order \in Orders(entries) :
          /\ file' = DatabaseSaveFile(file, order, format)
          /\ res' = DatabaseSaveResult(order, format)
          /\ generic_entries' = CollectFrom(order, format).v
    /\ beforeLen' = FileLen(file)
    /\ UNCHANGED <<entries, format>>
    /\ UNCHANGED concVars

\* Database::load()
Load ==
    /\ res' = DatabaseLoad(file)
    /\ generic_entries' = InnerLoad(file).v
    /\ beforeLen' = FileLen(file)
    /\ UNCHANGED <<entries, format, file>>
    /\ UNCHANGED concVars

Next ==
    \/ \E e \in Universe : Insert(e)
    \/ Clear
    \/ \E value \in BOOLEAN : SetCommandAsArray(value)
    \/ Save
    \/ Load

Spec == Init /\ [][Next]_vars

\* ------------------------------------------------- two concurrent saves
\* Two callers run Database::save on the same path with no lock.  Each call
\* converts its entries, opens the file with truncate, then makes the
\* serializer's writes one by one through its own handle, whose offset
\* counts the bytes it has written.
FormatOf(value) == [command_as_array |-> value]

SaveArgs(set, value) == [entries |-> set, format |-> FormatOf(value)]

\* the pairs of calls that run together: first caller, second caller
ConcArgs ==
    { <<SaveArgs({E1}, TRUE), SaveArgs({}, TRUE)>>,
      <<SaveArgs({}, FALSE), SaveArgs({}, TRUE)>>,
      <<SaveArgs({E2}, TRUE), SaveArgs({E1}, TRUE)>>,
      <<SaveArgs({E1}, TRUE), SaveArgs({E1}, FALSE)>>,
      <<SaveArgs({E1}, FALSE), SaveArgs({E7}, FALSE)>>,
      <<SaveArgs({E3}, FALSE), SaveArgs({E4}, TRUE)>>,
      <<SaveArgs({E6}, FALSE), SaveArgs({E5}, TRUE)>> }

InitConc ==
    /\ entries = {}
    /\ format = DatabaseFormatNew
    /\ file \in {AbsentFile, PrettyFile(<<ObjArr, ObjStr>>)}
    /\ res = Result("new", "ok", NoErr, {})
    /\ generic_entries = <<>>
    /\ beforeLen = FileLen(file)
    /\ pc = [p \in Procs |-> "start"]
    /\ cargs \in ConcArgs
    /\ doc = [p \in Procs |-> <<>>]
    /\ written = [p \in Procs |-> 0]
    /\ offset = [p \in Procs |-> 0]
    /\ lastOpen = 0
    /\ dirty = FALSE

\* Database::save lines 106-108 of caller p
ConcConvert(p) ==
    /\ pc[p] = "start"
    /\ \E order \in Orders(cargs[p].entries) :
          LET conv == CollectFrom(order, cargs[p].format)
          IN  IF conv.ok
              THEN /\ doc' = [doc EXCEPT ![p] = ToWriterPretty(conv.v)]
                   /\ pc' = [pc EXCEPT ![p] = "open"]
              ELSE /\ doc' = doc
                   /\ pc' = [pc EXCEPT ![p] = "failed"]
    /\ UNCHANGED <<cargs, written, offset, lastOpen, dirty>>
    /\ UNCHANGED seqVars

\* inner::save lines 150-154 of caller p
ConcOpen(p) ==
    /\ pc[p] = "open"
    /\ file' = OpenTruncate(file)
    /\ offset' = [offset EXCEPT ![p] = 0]
    /\ written' = [written EXCEPT ![p] = 0]
    /\ pc' = [pc EXCEPT ![p] = "write"]
    /\ lastOpen' = p
    /\ dirty' = FALSE
    /\ UNCHANGED <<cargs, doc>>
    /\ UNCHANGED <<entries, format, res, generic_entries, beforeLen>>

\* inner::save line 155 of caller p: the next write of the serializer
ConcWrite(p) ==
    /\ pc[p] = "write"
    /\ file' = WriteAt(file, offset[p], doc[p][written[p] + 1])
    /\ offset' = [offset EXCEPT ![p] = offset[p] + Len(doc[p][written[p] + 1])]
    /\ written' = [written EXCEPT ![p] = written[p] + 1]
    /\ pc' = [pc EXCEPT ![p] = IF written[p] + 1 = Len(doc[p]) THEN "done" ELSE "write"]
    /\ dirty' = (dirty \/ lastOpen # p)
    /\ UNCHANGED <<cargs, doc, lastOpen>>
    /\ UNCHANGED <<entries, format, res, generic_entries, beforeLen>>

NextConc ==
    \/ \E p \in Procs : ConcConvert(p)
    \/ \E p \in Procs : ConcOpen(p)
    \/ \E p \in Procs : ConcWrite(p)

SpecConc == InitConc /\ [][NextConc]_vars

\* ================================================================ claims
HasBadPath(e) ==
    \/ ~e.directory.utf8
    \/ ~e.file.utf8
    \/ (e.output.some /\ ~e.output.v.utf8)

AllValidUtf8(set) == \A e \in set : ~HasBadPath(e)

Formats == {FormatOf(TRUE), FormatOf(FALSE)}

SavedDocs(set) ==
    {DocBytes(ToWriterPretty(CollectFrom(order, fmt).v)) :
        order \in Orders(set), fmt \in Formats}

IdentityEqual(s, t) ==
    /\ \A a \in s : \E b \in t : EntryEq(a, b)
    /\ \A b \in t : \E a \in s : EntryEq(a, b)

SaveOk == res.op = "save" /\ res.kind = "ok"

\* the objects of a file that holds one JSON array
ObjectsOf(content) == ParseFile(content).objs

\* the text an Entry's output is expected to be written as
OutputMatches(jv, e) ==
    IF e.output.some THEN jv = JStr(e.output.v.s) ELSE jv = Absent

\* C1: load after save on the same path returns Ok with an Entries set equal
\* by identity to the saved one, for valid UTF-8 entries and both formats.
C1_SaveLoadRoundTrip ==
    (/\ res.op = "load"
     /\ AllValidUtf8(entries)
     /\ file.exists
     /\ file.content \in SavedDocs(entries))
    => (res.kind = "ok" /\ IdentityEqual(res.entries, entries))

\* C2: two Entries that differ only in output are equal, hash alike, and
\* are a single member of an Entries set.
C2_IdentityIgnoresOutput ==
    \A a \in entries : \A b \in entries :
        EntryEq(a, b) => (EntryHash(a) = EntryHash(b) /\ a = b)

\* C3: a save over a set holding an Entry with a non-UTF-8 directory, file
\* or output returns a path encoding error and leaves the file as it was.
C3_FailedSaveLeavesFile ==
    [][(res'.op = "save" /\ \E e \in entries : HasBadPath(e))
         => (/\ res'.kind = "err"
             /\ res'.err.k = "path"
             /\ file' = file)]_vars

C3_Witness ==
    /\ res.op = "save"
    /\ res.kind = "err"
    /\ res.err.k = "path"
    /\ Cardinality(entries) = 2
    /\ \E e \in entries : ~HasBadPath(e)
    /\ file.exists
    /\ beforeLen = FileLen(file)
    /\ Len(file.content) > 2

\* a quote that is never closed: an odd number of quote characters
UnbalancedQuote(s) == Cardinality({i \in 1..Len(s) : s[i] = "'"}) % 2 = 1

FailsConversion(g) == g.tag = "StringEntry" /\ UnbalancedQuote(g.command)

\* C4: when a record of the parsed file fails conversion, load returns no
\* entries and one error joining the messages of the failing records.
C4_AggregateLoadFailure ==
    (/\ res.op = "load"
     /\ InnerLoad(file).ok
     /\ \E i \in 1..Len(generic_entries) : FailsConversion(generic_entries[i]))
    => (/\ res.kind = "err"
        /\ res.err.k = "joined"
        /\ res.entries = {}
        /\ Len(res.err.msgs)
             = Cardinality({i \in 1..Len(generic_entries) :
                               FailsConversion(generic_entries[i])}))

\* C5: load and save always return an Entries set or an error value; no
\* call panics.
C5_ResultChannel == res.op \in {"load", "save"} => res.kind \in {"ok", "err"}

CcDashCAc == <<"c", "c", " ", "-", "c", " ", "a", ".", "c">>

\* C6: a fresh DatabaseFormat has command_as_array = true; save with the
\* flag set converts every Entry to an ArrayEntry with arguments = command,
\* with the flag clear to a StringEntry whose command is the shellword join;
\* directory, file and output carry over, and all records share one shape.
C6_WireShapeFollowsFlag ==
    /\ res.op = "new" => format.command_as_array
    /\ SaveOk =>
        /\ Len(generic_entries) = Cardinality(entries)
        /\ \A e \in entries : \E i \in 1..Len(generic_entries) :
              LET g == generic_entries[i]
              IN  /\ g.directory = e.directory.s
                  /\ g.file = e.file.s
                  /\ g.output = (IF e.output.some THEN SomeStr(e.output.v.s) ELSE NoneStr)
                  /\ IF format.command_as_array
                     THEN g.tag = "ArrayEntry" /\ g.arguments = e.command
                     ELSE g.tag = "StringEntry" /\ g.command = Join(e.command)
        /\ \A i, j \in 1..Len(generic_entries) :
              generic_entries[i].tag = generic_entries[j].tag
        /\ (E1 \in entries /\ ~format.command_as_array)
              => \E i \in 1..Len(generic_entries) : generic_entries[i].command = CcDashCAc

C6_Witness ==
    /\ SaveOk
    /\ ~format.command_as_array
    /\ E1 \in entries
    /\ E3 \in entries
    /\ \E i \in 1..Len(generic_entries) :
          generic_entries[i].command = <<"c", "c", " ", "a", "\\", " ", "b">>

\* C7: in every record save writes, in both shapes, the key output is there
\* exactly when the Entry's output has a value, and then holds the path as
\* text; it is never null.
C7_OutputOmission ==
    SaveOk =>
        LET objs == ObjectsOf(file.content)
        IN  /\ \A i \in 1..Len(objs) :
                /\ objs[i].output.t \in {"absent", "str"}
                /\ \E e \in entries :
                      /\ objs[i].directory = JStr(e.directory.s)
                      /\ objs[i].file = JStr(e.file.s)
                      /\ OutputMatches(objs[i].output, e)
            /\ \A e \in entries : \E i \in 1..Len(objs) :
                /\ objs[i].directory = JStr(e.directory.s)
                /\ objs[i].file = JStr(e.file.s)
                /\ (objs[i].arguments = JList(e.command)
                      \/ objs[i].command = JStr(Join(e.command)))
                /\ OutputMatches(objs[i].output, e)

C7_Witness ==
    /\ SaveOk
    /\ E1 \in entries
    /\ E2 \in entries
    /\ \E i \in 1..2 : ObjectsOf(file.content)[i].output = Absent
    /\ \E i \in 1..2 : ObjectsOf(file.content)[i].output = JStr(AO)

LoadedArray == res.op = "load" /\ file.exists /\ ParseFile(file.content).ok

NeitherShape(o) == o.command.t # "str" /\ o.arguments.t # "list"

\* C8 as stated: among the objects load decodes, every one with a list-valued
\* arguments key is an ArrayEntry, also with a command string alongside.
C8_ArgumentsImpliesArray ==
    (LoadedArray /\ res.err.k # "deser") =>
        \A i \in 1..Len(generic_entries) :
            LET o == ObjectsOf(file.content)[i]
            IN  /\ o.arguments.t = "list" => generic_entries[i].tag = "ArrayEntry"
                /\ (o.command.t = "str" /\ o.arguments.t # "list")
                      => generic_entries[i].tag = "StringEntry"

\* C8 amended: each object decodes on its own, whatever the format flag; an
\* object with a string-valued command is a StringEntry, also when an
\* arguments list is alongside; an object with a list-valued arguments and
\* no string-valued command is an ArrayEntry; an object with neither makes
\* load fail with a deserialization error.
C8_StructuralShape ==
    LoadedArray =>
        LET objs == ObjectsOf(file.content)
        IN  /\ (\E i \in 1..Len(objs) : NeitherShape(objs[i]))
                  => (res.kind = "err" /\ res.err.k = "deser")
            /\ res.err.k # "deser" =>
                /\ Len(generic_entries) = Len(objs)
                /\ \A i \in 1..Len(objs) :
                      /\ objs[i].command.t = "str"
                            => /\ generic_entries[i].tag = "StringEntry"
                               /\ generic_entries[i].command = objs[i].command.s
                      /\ (objs[i].command.t # "str" /\ objs[i].arguments.t = "list")
                            => /\ generic_entries[i].tag = "ArrayEntry"
                               /\ generic_entries[i].arguments = objs[i].arguments.l

C8_Witness ==
    /\ LoadedArray
    /\ ~format.command_as_array
    /\ Len(generic_entries) = 1
    /\ ObjectsOf(file.content)[1].command.t = "str"
    /\ ObjectsOf(file.content)[1].arguments.t = "list"
    /\ generic_entries[1].tag = "StringEntry"

BothDone == \A p \in Procs : pc[p] = "done"

\* C9 as stated: after two concurrent saves have completed the file holds
\* the complete document of one of them.
C9_LastWriterWins == BothDone => file.content \in {DocBytes(doc[p]) : p \in Procs}

\* C9 amended: after two concurrent saves have completed, the file holds
\* exactly the document of the call that opened it last, provided the other
\* call wrote nothing after that open.
C9_LastOpenerWinsWhenUndisturbed ==
    (BothDone /\ ~dirty) => (file.exists /\ file.content = DocBytes(doc[lastOpen]))

C9_Witness ==
    /\ BothDone
    /\ ~dirty
    /\ Len(DocBytes(doc[lastOpen])) < Len(DocBytes(doc[3 - lastOpen]))
    /\ file.content = DocBytes(doc[lastOpen])

\* the object is the wire record of the Entry, in one of the two shapes
RecordOf(o, e) ==
    /\ o.directory = JStr(e.directory.s)
    /\ o.file = JStr(e.file.s)
    /\ \/ (o.arguments = JList(e.command) /\ o.command = Absent)
       \/ (o.command = JStr(Join(e.command)) /\ o.arguments = Absent)
    /\ OutputMatches(o.output, e)

\* C10: after a successful save the file exists and is one JSON array with
\* exactly one record per member of the saved set, whatever it held before.
C10_SaveReplaces ==
    SaveOk =>
        /\ file.exists
        /\ LET parsed == ParseFile(file.content)
           IN  /\ parsed.ok
               /\ \E order \in Orders(entries) :
                     /\ Len(parsed.objs) = Len(order)
                     /\ \A i \in 1..Len(order) : RecordOf(parsed.objs[i], order[i])

C10_Witness ==
    /\ SaveOk
    /\ entries # {}
    /\ beforeLen > FileLen(file)
====
